---------------------------- MODULE Spec2Model ----------------------------
(***************************************************************************)
(* A model of the location-resolution and aggregation engine of the       *)
(* COVID-19 API (src/app.py) and of the memoizing cache in front of it.    *)
(*                                                                         *)
(* Text that the code lower-cases or searches (country and region names,   *)
(* ISO codes, queries, stored counts) is a sequence of one-character       *)
(* strings, so that case folding, substring search and integer parsing are *)
(* computed and not assumed.  Data types and file names are plain strings. *)
(***************************************************************************)
EXTENDS Integers, Sequences, FiniteSets, TLC

VARIABLES
    store,      \* the snapshot files on disk: file name -> decoded content
    gen,        \* file name -> how many times the file has been replaced
    now,        \* time.time(), in seconds
    cache,      \* the SimpleCache: key -> <<entry>> or <<>>
    th,         \* per request thread: position in the memoized call
    lastStore,  \* history: request -> <<the last cache.set for it>> or <<>>
    started,    \* the number of memoized calls started
    call        \* the engine call made directly on the function bodies

vars == <<store, gen, now, cache, th, lastStore, started, call>>

---------------------------------------------------------------------------
(* Bounds of the model *)

MaxEntities == 2     \* entities per snapshot
MaxRegions == 3      \* regions per snapshot, over all its countries
MaxCounts == 3       \* stored counts per snapshot, over all its countries
MaxEvents == 5       \* memoized calls, clock advances and file replacements

---------------------------------------------------------------------------
(* Text *)

UpperCase == <<"A", "B", "C", "F", "L", "R", "S", "U", "Z">>
LowerCase == <<"a", "b", "c", "f", "l", "r", "s", "u", "z">>

\* str.lower() on one character
LowerChar(c) ==
    IF \E i \in 1..Len(UpperCase) : UpperCase[i] = c
    THEN LowerCase[CHOOSE i \in 1..Len(UpperCase) : UpperCase[i] = c]
    ELSE c

\* str.lower()
lower(s) == [i \in 1..Len(s) |-> LowerChar(s[i])]

\* Python's `q in s` on strings
IsSubstring(q, s) ==
    \E i \in 0..(Len(s) - Len(q)) : SubSeq(s, i + 1, i + Len(q)) = q

\* util.pattern_match: case-folded equality with the name or a code, or a
\* non-empty case-folded substring of the name
pattern_match(query, name, iso2, iso3) ==
    LET q == lower(query) IN
    /\ q # <<>>
    /\ \/ q = lower(name)
       \/ q = lower(iso2)
       \/ q = lower(iso3)
       \/ IsSubstring(q, lower(name))

\* the country queries that select the US-specific region snapshot
US_NAMES == { <<"u", "s">>,
              <<"u", "n", "i", "t", "e", "d", " ", "s", "t", "a", "t", "e", "s">>,
              <<"u", "s", "a">> }

---------------------------------------------------------------------------
(* Stored counts and int() *)

IntVal(n) == [t |-> "int", n |-> n, s |-> <<>>]
StrVal(s) == [t |-> "str", n |-> 0, s |-> s]
FloatVal(tenths) == [t |-> "float", n |-> tenths, s |-> <<>>]

Digits == <<"0", "1", "2", "3", "4", "5", "6", "7", "8", "9">>
IsDigit(c) == \E i \in 1..10 : Digits[i] = c
DigitOf(c) == (CHOOSE i \in 1..10 : Digits[i] = c) - 1

RECURSIVE strip(_)
\* str.strip() of blanks, which int() applies to a string
strip(s) ==
    IF s = <<>> THEN s
    ELSE IF Head(s) = " " THEN strip(Tail(s))
    ELSE IF s[Len(s)] = " " THEN strip(SubSeq(s, 1, Len(s) - 1))
    ELSE s

RECURSIVE DigitsValue(_)
DigitsValue(s) ==
    IF s = <<>> THEN 0
    ELSE 10 * DigitsValue(SubSeq(s, 1, Len(s) - 1)) + DigitOf(s[Len(s)])

\* whether int(v) returns
int_ok(v) ==
    CASE v.t = "int" -> TRUE
      [] v.t = "float" -> TRUE
      [] OTHER ->
           LET b == strip(v.s)
               d == IF b # <<>> /\ Head(b) \in {"-", "+"} THEN Tail(b) ELSE b
           IN  d # <<>> /\ \A i \in 1..Len(d) : IsDigit(d[i])

\* int(v): an integer as it is, a float truncated towards zero, a string
\* parsed as an optionally signed decimal numeral
int(v) ==
    CASE v.t = "int" -> v.n
      [] v.t = "float" -> IF v.n >= 0 THEN v.n \div 10 ELSE -((-v.n) \div 10)
      [] OTHER ->
           LET b == strip(v.s)
               neg == b # <<>> /\ Head(b) = "-"
               d == IF b # <<>> /\ Head(b) \in {"-", "+"} THEN Tail(b) ELSE b
           IN  IF neg THEN -DigitsValue(d) ELSE DigitsValue(d)

---------------------------------------------------------------------------
(* Responses *)

\* str(e): the text of an exception and the value it quotes
Message(text, arg) == [text |-> text, arg |-> arg]
NoMessage == Message("", <<>>)

\* an exception travelling up to the except clauses of a function
Raise(kind, msg) ==
    [status |-> 0, error |-> kind, msg |-> msg, shape |-> "raise",
     nodes |-> <<>>, totals |-> <<>>]

\* flask.jsonify of a list, a mapping or one object of the snapshot
jsonify(shape, nodes) ==
    [status |-> 200, error |-> "", msg |-> NoMessage, shape |-> shape,
     nodes |-> nodes, totals |-> <<>>]

\* flask.jsonify of the world totals {"history": {...}}
jsonify_totals(totals) ==
    [status |-> 200, error |-> "", msg |-> NoMessage, shape |-> "totals",
     nodes |-> <<>>, totals |-> totals]

\* util.response_error(message=f"{type(e).__name__} : {e}", status=...)
response_error(kind, msg, status) ==
    [status |-> status, error |-> kind, msg |-> msg, shape |-> "error",
     nodes |-> <<>>, totals |-> <<>>]

\* the value stored under a key of a mapping: the key is not part of it
ValueOf(node) == [node EXCEPT !.name = <<>>]

\* util.read_json: whether the file loads
FileExists(s, file) == file \in DOMAIN s

\* util.read_json(file) failing
read_json_error(file) ==
    Raise("FileNotFoundError", Message("No such file or directory", <<file>>))

---------------------------------------------------------------------------
(* The engine: the bodies of the memoized functions, on the store s *)

\* a function without its except clause: the exception leaves it
except_nothing(r) == r

\* the except clause of all_data, history and history_region_world
except_Exception(r) ==
    IF r.status # 0 THEN r ELSE response_error(r.error, r.msg, 500)

all_data(s) ==
    except_Exception(
        IF ~FileExists(s, "data.json") THEN read_json_error("data.json")
        ELSE jsonify("list", s["data.json"]))

RECURSIVE all_country_scan_last(_, _, _)
\* all_country's loop without its early return: the last match wins
all_country_scan_last(data, country, i) ==
    LET M == { k \in i..Len(data) :
                 pattern_match(country, data[k].name, data[k].iso2, data[k].iso3) }
    IN  IF M = {}
        THEN Raise("CountryNotFound",
                   Message("This region cannot be found. Please try again.", <<>>))
        ELSE jsonify("object", <<data[CHOOSE k \in M : \A m \in M : m <= k]>>)

RECURSIVE all_country_scan(_, _, _)
\* `for region in data` of all_country, from position i
all_country_scan(data, country, i) ==
    IF i > Len(data)
    THEN Raise("CountryNotFound",
               Message("This region cannot be found. Please try again.", <<>>))
    ELSE IF pattern_match(country, data[i].name, data[i].iso2, data[i].iso3)
         THEN jsonify("object", <<data[i]>>)
         ELSE all_country_scan(data, country, i + 1)

\* the except clauses of all_country, history_country and history_region_all
except_CountryNotFound(r) ==
    IF r.status # 0 THEN r
    ELSE IF r.error = "CountryNotFound" THEN response_error(r.error, r.msg, 404)
    ELSE response_error(r.error, r.msg, 500)

\* the except clauses of history_region
except_RegionNotFound(r) ==
    IF r.status # 0 THEN r
    ELSE IF r.error = "RegionNotFound" THEN response_error(r.error, r.msg, 404)
    ELSE response_error(r.error, r.msg, 500)

all_country(s, country) ==
    except_CountryNotFound(
        IF ~FileExists(s, "data.json") THEN read_json_error("data.json")
        ELSE all_country_scan(s["data.json"], country, 1))

csv_file(data_type) == "csv_" \o data_type \o ".json"

history(s, data_type) ==
    except_Exception(
        IF ~FileExists(s, csv_file(data_type)) THEN read_json_error(csv_file(data_type))
        ELSE jsonify("mapping", s[csv_file(data_type)]))

RECURSIVE history_country_scan(_, _, _)
\* `for region in list(data.keys())` of history_country, from position i
history_country_scan(data, country, i) ==
    IF i > Len(data)
    THEN Raise("CountryNotFound",
               Message("This region cannot be found. Please try again.", <<>>))
    ELSE IF pattern_match(country, data[i].name, data[i].iso2, data[i].iso3)
         THEN jsonify("object", <<ValueOf(data[i])>>)
         ELSE history_country_scan(data, country, i + 1)

history_country(s, data_type, country) ==
    except_CountryNotFound(
        IF ~FileExists(s, csv_file(data_type)) THEN read_json_error(csv_file(data_type))
        ELSE history_country_scan(s[csv_file(data_type)], country, 1))

\* the file history_region and history_region_all read
region_file(data_type, country) ==
    IF lower(country) \in US_NAMES
    THEN "csv_" \o data_type \o "_us_region.json"
    ELSE "csv_" \o data_type \o "_region.json"

RECURSIVE region_scan_substring(_, _, _)
\* the regions compared the way countries are, by substring
region_scan_substring(regions, region_name, j) ==
    IF j > Len(regions) THEN 0
    ELSE IF IsSubstring(lower(region_name), lower(regions[j].name)) THEN j
    ELSE region_scan_substring(regions, region_name, j + 1)

RECURSIVE region_scan(_, _, _)
\* `for region in data[inner_country]["regions"]`, from position j: the
\* position of the first region equal to region_name after lower(), or 0
region_scan(regions, region_name, j) ==
    IF j > Len(regions) THEN 0
    ELSE IF lower(regions[j].name) = lower(region_name) THEN j
    ELSE region_scan(regions, region_name, j + 1)

RECURSIVE history_region_scan(_, _, _, _)
\* `for inner_country in list(data.keys())` of history_region, from position
\* i: a matching country without the region does not end the loop
history_region_scan(data, country, region_name, i) ==
    IF i > Len(data)
    THEN Raise("RegionNotFound",
               Message("This region cannot be found. Please try again.", <<>>))
    ELSE IF /\ pattern_match(country, data[i].name, data[i].iso2, data[i].iso3)
            /\ region_scan(data[i].regions, region_name, 1) # 0
         THEN jsonify("object",
                  <<ValueOf(data[i].regions[region_scan(data[i].regions, region_name, 1)])>>)
         ELSE history_region_scan(data, country, region_name, i + 1)

history_region(s, data_type, country, region_name) ==
    except_RegionNotFound(
        IF ~FileExists(s, region_file(data_type, country))
        THEN read_json_error(region_file(data_type, country))
        ELSE history_region_scan(s[region_file(data_type, country)], country, region_name, 1))

RECURSIVE history_region_all_scan(_, _, _)
history_region_all_scan(data, country, i) ==
    IF i > Len(data)
    THEN Raise("CountryNotFound",
               Message("This country cannot be found. Please try again.", <<>>))
    ELSE IF pattern_match(country, data[i].name, data[i].iso2, data[i].iso3)
         THEN jsonify("mapping", data[i].regions)
         ELSE history_region_all_scan(data, country, i + 1)

history_region_all(s, data_type, country) ==
    except_CountryNotFound(
        IF ~FileExists(s, region_file(data_type, country))
        THEN read_json_error(region_file(data_type, country))
        ELSE history_region_all_scan(s[region_file(data_type, country)], country, 1))

\* ret["history"][h] = n on every sight of h
add_count_overwrite(totals, h, n) ==
    IF \E k \in 1..Len(totals) : totals[k].date = h
    THEN [k \in 1..Len(totals) |->
            IF totals[k].date = h THEN [date |-> h, n |-> n] ELSE totals[k]]
    ELSE Append(totals, [date |-> h, n |-> n])

\* ret["history"][h] = n on first sight of h, ret["history"][h] += n after
add_count(totals, h, n) ==
    IF \E k \in 1..Len(totals) : totals[k].date = h
    THEN [k \in 1..Len(totals) |->
            IF totals[k].date = h THEN [date |-> h, n |-> totals[k].n + n]
            ELSE totals[k]]
    ELSE Append(totals, [date |-> h, n |-> n])

\* int(x) raising on a string that is no numeral
int_error(v) ==
    Raise("ValueError", Message("invalid literal for int() with base 10", v.s))

RECURSIVE world_scan(_, _, _, _)
\* the two loops of history_region_world, from date h of entity d
world_scan(data, d, h, totals) ==
    IF d > Len(data) THEN jsonify_totals(totals)
    ELSE IF h > Len(data[d].history) THEN world_scan(data, d + 1, 1, totals)
    ELSE LET e == data[d].history[h] IN
         IF ~int_ok(e.val) THEN int_error(e.val)
         ELSE world_scan(data, d, h + 1, add_count(totals, e.date, int(e.val)))

history_region_world(s, data_type) ==
    except_Exception(
        IF ~FileExists(s, csv_file(data_type)) THEN read_json_error(csv_file(data_type))
        ELSE world_scan(s[csv_file(data_type)], 1, 1, <<>>))

---------------------------------------------------------------------------
(* The snapshots and the queries the model draws from *)

Str_us == <<"u", "s">>
Str_USA == <<"U", "S", "A">>
Str_FR == <<"F", "R">>
Str_zz == <<"z", "z">>

\* the countries of a snapshot: "us" is the name of one, a code of none
\* other, and a substring of the name of another
COUNTRIES ==
    << [name |-> <<"U", "S">>, iso2 |-> <<"U", "S">>, iso3 |-> <<"U", "S", "A">>],
       [name |-> <<"A", "u", "s">>, iso2 |-> <<"A", "U">>, iso3 |-> <<"A", "U", "S">>],
       [name |-> <<"F", "r">>, iso2 |-> <<"F", "R">>, iso3 |-> <<"F", "R", "A">>] >>

REGION_NAMES == << <<"C", "a">>, <<"C", "A">>, <<"C", "a", "l">> >>

CountryQueries == {Str_us, Str_USA, Str_FR, Str_zz, <<>>}
RegionQueries == {<<"c", "a">>, <<"C", "a", "l">>, <<"c">>, Str_zz}
DataTypeQueries == {"confirmed", "bogus"}

DATES == <<"2021-01-01", "2021-01-02">>

\* stored counts: an integer, a numeric string, a string that is no
\* numeral, a float
COUNTS == {IntVal(2), StrVal(<<"1", "0">>), StrVal(<<"x">>), FloatVal(37)}

\* the sequences without repetition of at most n elements of S
InjSeqs(S, n) ==
    UNION { { q \in [1..k -> S] : \A i, j \in 1..k : q[i] = q[j] => i = j } : k \in 0..n }

\* the history mappings over DATES, each in the order of DATES
Histories ==
    UNION { { LET ds == SelectSeq(DATES, LAMBDA d : d \in D)
              IN  [k \in 1..Len(ds) |-> [date |-> ds[k], val |-> f[ds[k]]]] :
              f \in [D -> COUNTS] } : D \in SUBSET {DATES[k] : k \in 1..Len(DATES)} }

Node(c, hist, regions) ==
    [name |-> COUNTRIES[c].name, iso2 |-> COUNTRIES[c].iso2, iso3 |-> COUNTRIES[c].iso3,
     history |-> hist, regions |-> regions]

\* a region of country c: its count tells it from every other region
RegionNode(c, r) ==
    [name |-> REGION_NAMES[r], iso2 |-> <<>>, iso3 |-> <<>>,
     history |-> <<[date |-> DATES[1], val |-> IntVal(10 * c + r)]>>, regions |-> <<>>]

CountryIds == 1..Len(COUNTRIES)
RegionIds == 1..Len(REGION_NAMES)

RECURSIVE TotalLen(_)
\* the number of elements of the sequences of qs together
TotalLen(qs) ==
    IF qs = <<>> THEN 0 ELSE Len(Head(qs)) + TotalLen(Tail(qs))

\* data.json: a list of countries
FlatSnapshots ==
    { [i \in 1..Len(q) |-> Node(q[i], <<>>, <<>>)] : q \in InjSeqs(CountryIds, MaxEntities) }

\* csv_<type>.json: countries in any order, or countries with any histories
CsvSnapshots ==
    { [i \in 1..Len(q) |-> Node(q[i], <<[date |-> DATES[1], val |-> IntVal(q[i])]>>, <<>>)] :
        q \in InjSeqs(CountryIds, MaxEntities) }
    \cup UNION { { [i \in 1..k |-> Node(i, h[i], <<>>)] :
                     h \in {g \in [1..k -> Histories] : TotalLen(g) <= MaxCounts} } :
                   k \in 0..(IF MaxEntities < Len(COUNTRIES) THEN MaxEntities ELSE Len(COUNTRIES)) }

\* csv_<type>_region.json and csv_<type>_us_region.json
RegionSnapshots ==
    UNION { { [i \in 1..Len(q) |->
                 Node(q[i], <<>>, [j \in 1..Len(rs[i]) |-> RegionNode(q[i], rs[i][j])])] :
              rs \in { g \in [1..Len(q) -> InjSeqs(RegionIds, MaxRegions)] :
                         TotalLen(g) <= MaxRegions } } :
            q \in InjSeqs(CountryIds, MaxEntities) }

NoArgs == [data_type |-> "", country |-> <<>>, region_name |-> <<>>]
NoCall == [op |-> "none", args |-> NoArgs, result |-> Raise("", NoMessage)]

---------------------------------------------------------------------------
(* The engine called directly, on any snapshot: one call per behaviour *)

InitEngine ==
    /\ \/ \E d \in FlatSnapshots : store = ("data.json" :> d)
       \/ \E d \in CsvSnapshots : store = ("csv_confirmed.json" :> d)
       \/ \E d \in RegionSnapshots :
            \E f \in {"csv_confirmed_region.json", "csv_confirmed_us_region.json"} :
                store = (f :> d)
    /\ gen = [f \in DOMAIN store |-> 0]
    /\ now = 0
    /\ cache = <<>>
    /\ th = <<>>
    /\ lastStore = <<>>
    /\ started = 0
    /\ call = NoCall

Returned(op, args, result) == [op |-> op, args |-> args, result |-> result]

CallAllData ==
    /\ call = NoCall
    /\ call' = Returned("all_data", NoArgs, all_data(store))
    /\ UNCHANGED <<store, gen, now, cache, th, lastStore, started>>

CallAllCountry ==
    \E c \in CountryQueries :
        /\ call = NoCall
        /\ call' = Returned("all_country", [NoArgs EXCEPT !.country = c],
                            all_country(store, c))
        /\ UNCHANGED <<store, gen, now, cache, th, lastStore, started>>

CallHistory ==
    \E t \in DataTypeQueries :
        /\ call = NoCall
        /\ call' = Returned("history", [NoArgs EXCEPT !.data_type = t], history(store, t))
        /\ UNCHANGED <<store, gen, now, cache, th, lastStore, started>>

CallHistoryCountry ==
    \E t \in DataTypeQueries, c \in CountryQueries :
        /\ call = NoCall
        /\ call' = Returned("history_country",
                            [NoArgs EXCEPT !.data_type = t, !.country = c],
                            history_country(store, t, c))
        /\ UNCHANGED <<store, gen, now, cache, th, lastStore, started>>

CallHistoryRegion ==
    \E t \in DataTypeQueries, c \in CountryQueries, r \in RegionQueries :
        /\ call = NoCall
        /\ call' = Returned("history_region",
                            [data_type |-> t, country |-> c, region_name |-> r],
                            history_region(store, t, c, r))
        /\ UNCHANGED <<store, gen, now, cache, th, lastStore, started>>

CallHistoryRegionAll ==
    \E t \in DataTypeQueries, c \in CountryQueries :
        /\ call = NoCall
        /\ call' = Returned("history_region_all",
                            [NoArgs EXCEPT !.data_type = t, !.country = c],
                            history_region_all(store, t, c))
        /\ UNCHANGED <<store, gen, now, cache, th, lastStore, started>>

CallHistoryRegionWorld ==
    \E t \in DataTypeQueries :
        /\ call = NoCall
        /\ call' = Returned("history_region_world", [NoArgs EXCEPT !.data_type = t],
                            history_region_world(store, t))
        /\ UNCHANGED <<store, gen, now, cache, th, lastStore, started>>

NextEngine ==
    \/ CallAllData
    \/ CallAllCountry
    \/ CallHistory
    \/ CallHistoryCountry
    \/ CallHistoryRegion
    \/ CallHistoryRegionAll
    \/ CallHistoryRegionWorld

SpecEngine == InitEngine /\ [][NextEngine]_vars

---------------------------------------------------------------------------
(* Properties of the engine *)

Min(S) == CHOOSE x \in S : \A y \in S : x <= y

\* the positions of the entities of data the matcher accepts for a query
Matching(data, country) ==
    { i \in 1..Len(data) :
        pattern_match(country, data[i].name, data[i].iso2, data[i].iso3) }

\* the positions of the regions named as the query, up to case
RegionsNamed(regions, region_name) ==
    { j \in 1..Len(regions) : lower(regions[j].name) = lower(region_name) }

CallFile ==
    CASE call.op \in {"all_data", "all_country"} -> "data.json"
      [] call.op \in {"history", "history_country", "history_region_world"} ->
           csv_file(call.args.data_type)
      [] OTHER -> region_file(call.args.data_type, call.args.country)

CallLoaded == call.op # "none" /\ FileExists(store, CallFile)
CallData == store[CallFile]

NotFound(kind, text) == response_error(kind, Message(text, <<>>), 404)

\* C1: history_region answers RegionNotFound only when some entity matches
\* the country query and none of its regions is the one asked for, and
\* answers CountryNotFound when no entity matches the country query.
C1_RegionOrCountryNotFound ==
    (call.op = "history_region" /\ CallLoaded) =>
        LET M == Matching(CallData, call.args.country) IN
        /\ call.result.error = "RegionNotFound" => M # {}
        /\ M = {} => call.result.error = "CountryNotFound"

\* C2: all_country and history_country return the first entity, in stored
\* order, that the matcher accepts, also when later entities match, and
\* answer CountryNotFound (404) exactly when no entity matches.
C2_FirstMatchWins ==
    (call.op \in {"all_country", "history_country"} /\ CallLoaded) =>
        LET M == Matching(CallData, call.args.country) IN
        /\ M # {} =>
             call.result = jsonify("object",
                 << IF call.op = "all_country" THEN CallData[Min(M)]
                    ELSE ValueOf(CallData[Min(M)]) >>)
        /\ M = {} =>
             call.result =
                 NotFound("CountryNotFound", "This region cannot be found. Please try again.")
        /\ (call.result.status = 404 \/ call.result.error = "CountryNotFound") <=> M = {}

C2_Witness ==
    /\ call.op \in {"all_country", "history_country"}
    /\ CallLoaded
    /\ Cardinality(Matching(CallData, call.args.country)) >= 2
    /\ call.result.status = 200
    /\ call.result.nodes[1].iso2 = CallData[1].iso2
    /\ Len(CallData) >= 2

\* the mapping a list of totals stands for
TotalsMap(totals) == { <<totals[k].date, totals[k].n>> : k \in 1..Len(totals) }

DatesOf(data) ==
    UNION { { data[d].history[h].date : h \in 1..Len(data[d].history) } : d \in 1..Len(data) }

AllCoercible(data) ==
    \A d \in 1..Len(data) : \A h \in 1..Len(data[d].history) : int_ok(data[d].history[h].val)

RECURSIVE DateSum(_, _, _)
\* the sum, over the entities of data from position d on, of the count
\* each one stores for the date
DateSum(data, date, d) ==
    IF d > Len(data) THEN 0
    ELSE LET hs == { h \in 1..Len(data[d].history) : data[d].history[h].date = date }
         IN  (IF hs = {} THEN 0 ELSE int(data[d].history[CHOOSE h \in hs : TRUE].val))
             + DateSum(data, date, d + 1)

\* data with its entities in the order p
Shuffled(data, p) == [i \in 1..Len(data) |-> data[p[i]]]

\* C3: history_region_world returns a mapping whose dates are the union of
\* the dates of all entities, each once, whose value for a date is the sum
\* of the counts, coerced to integers, of the entities that have the date,
\* and that is the same for every order of the entities.
C3_WorldTotals ==
    (call.op = "history_region_world" /\ CallLoaded) =>
        /\ AllCoercible(CallData) =>
             /\ call.result.status = 200
             /\ call.result.shape = "totals"
             /\ { call.result.totals[k].date : k \in 1..Len(call.result.totals) }
                    = DatesOf(CallData)
             /\ Len(call.result.totals) = Cardinality(DatesOf(CallData))
             /\ \A k \in 1..Len(call.result.totals) :
                    call.result.totals[k].n
                        = DateSum(CallData, call.result.totals[k].date, 1)
        /\ \A p \in Permutations(1..Len(CallData)) :
             LET other == history_region_world(
                              CallFile :> Shuffled(CallData, p), call.args.data_type)
             IN  /\ other.status = call.result.status
                 /\ TotalsMap(other.totals) = TotalsMap(call.result.totals)

C3_Witness ==
    /\ call.op = "history_region_world"
    /\ CallLoaded
    /\ call.result.status = 200
    /\ Len(CallData) >= 2
    /\ Cardinality(DatesOf(CallData)) >= 2
    /\ \E d \in 1..Len(CallData) :
          /\ Len(CallData[d].history) = 1
          /\ CallData[d].history[1].val.t = "str"
    /\ \E k \in 1..Len(call.result.totals) :
          /\ call.result.totals[k].n = 12
          /\ \A d \in 1..Len(CallData) :
                \E h \in 1..Len(CallData[d].history) :
                    CallData[d].history[h].date = call.result.totals[k].date

C8_FirstCountryOnly ==
    (call.op = "history_region" /\ CallLoaded) =>
        LET M == Matching(CallData, call.args.country) IN
        (M # {} /\ RegionsNamed(CallData[Min(M)].regions, call.args.region_name) = {}) =>
            call.result.error = "RegionNotFound"

\* the first bad count in the order history_region_world meets them
FirstBad(data) ==
    LET d == Min({ i \in 1..Len(data) :
                     \E h \in 1..Len(data[i].history) : ~int_ok(data[i].history[h].val) })
        h == Min({ k \in 1..Len(data[d].history) : ~int_ok(data[d].history[k].val) })
    IN  data[d].history[h].val

\* C7: every operation, on any arguments and any snapshot, a file that
\* does not load and a count that is no integer included, returns a success
\* value or an error response that carries the kind and the message of the
\* error, with status 404 for CountryNotFound and RegionNotFound and 500
\* for every other kind.
C7_TypedOutcome ==
    call.op # "none" =>
        LET r == call.result IN
        /\ r.status \in {200, 404, 500}
        /\ r.status = 200 <=> r.shape # "error"
        /\ r.status = 200 <=> r.error = ""
        /\ r.status = 404 <=> r.error \in {"CountryNotFound", "RegionNotFound"}
        /\ r.shape # "raise"
        /\ ~CallLoaded =>
             r = response_error("FileNotFoundError",
                     Message("No such file or directory", <<CallFile>>), 500)
        /\ (CallLoaded /\ call.op = "history_region_world" /\ ~AllCoercible(CallData)) =>
             r = response_error("ValueError",
                     Message("invalid literal for int() with base 10",
                             FirstBad(CallData).s), 500)
        /\ r.status = 404 => r.msg.text # ""

C7_Witness ==
    /\ call.op = "history_region_world"
    /\ CallLoaded
    /\ ~AllCoercible(CallData)
    /\ call.result.status = 500
    /\ call.result.error = "ValueError"

---------------------------------------------------------------------------
(* The memoizing cache in front of the engine, under concurrent requests *)

\* the timeout the comment next to CACHE_DEFAULT_TIMEOUT speaks of
CACHE_TIMEOUT_30_MINUTES == 30 * 60

\* "CACHE_DEFAULT_TIMEOUT": 15 * 60, in seconds
CACHE_DEFAULT_TIMEOUT == 15 * 60

\* the clock advances in steps of two thirds of the timeout
TICK == (2 * CACHE_DEFAULT_TIMEOUT) \div 3

Threads == {"t1", "t2"}

Str_Fr == <<"f", "r">>

Request(op, data_type, country, region_name) ==
    [op |-> op,
     args |-> [data_type |-> data_type, country |-> country, region_name |-> region_name]]

NoRequest == Request("none", "", <<>>, <<>>)

\* the requests made of the cache: two operations on the same arguments,
\* for a country that one version of csv_confirmed.json has and the other
\* has not
Requests ==
    { Request("history_country", "confirmed", Str_Fr, <<>>),
      Request("history_region_all", "confirmed", Str_Fr, <<>>) }

\* the file a request reads
FileOf(r) ==
    CASE r.op \in {"all_data", "all_country"} -> "data.json"
      [] r.op \in {"history", "history_country", "history_region_world"} ->
           csv_file(r.args.data_type)
      [] OTHER -> region_file(r.args.data_type, r.args.country)

\* the function a memoized call wraps, applied to its arguments
Apply(r, s) ==
    CASE r.op = "all_data" -> all_data(s)
      [] r.op = "all_country" -> all_country(s, r.args.country)
      [] r.op = "history" -> history(s, r.args.data_type)
      [] r.op = "history_country" -> history_country(s, r.args.data_type, r.args.country)
      [] r.op = "history_region" ->
           history_region(s, r.args.data_type, r.args.country, r.args.region_name)
      [] r.op = "history_region_all" ->
           history_region_all(s, r.args.data_type, r.args.country)
      [] OTHER -> history_region_world(s, r.args.data_type)

\* a key that leaves the function's name out
cache_key_args_only(op, args) == [op |-> "", args |-> args]

\* the key cache.memoize() derives: the function's name and its arguments
cache_key(op, args) == [op |-> op, args |-> args]

CacheKeys == { cache_key(r.op, r.args) : r \in Requests }

\* cache.get(key) without the look at the expiry
cache_get_ignoring_expiry(c, key, time) == c[key]

\* cache.get(key): the stored response while its expiry lies ahead
cache_get(c, key, time) ==
    IF c[key] # <<>> /\ c[key][1].expires > time THEN c[key] ELSE <<>>

\* cache.set(key, rv) that keeps successful responses only
cache_set_success_only(c, key, rv, time, g) ==
    IF rv.status # 200 THEN c
    ELSE [c EXCEPT ![key] =
            <<[value |-> rv, expires |-> time + 15 * 60, gen |-> g]>>]

\* cache.set(key, rv): one assignment of the entry, expiring a timeout
\* from now; g is the generation of the snapshot rv was computed from
cache_set(c, key, rv, time, g) ==
    [c EXCEPT ![key] = <<[value |-> rv, expires |-> time + CACHE_DEFAULT_TIMEOUT, gen |-> g]>>]

\* the content of a file after g replacements: the ingestion job writes
\* one of two versions in turn
Content(file, g) ==
    CASE file = "csv_confirmed.json" ->
           IF g % 2 = 0
           THEN <<Node(1, <<[date |-> DATES[1], val |-> StrVal(<<"1", "0">>)]>>, <<>>),
                  Node(3, <<[date |-> DATES[1], val |-> IntVal(5)]>>, <<>>)>>
           ELSE <<Node(1, <<[date |-> DATES[1], val |-> StrVal(<<"1", "0">>)],
                            [date |-> DATES[2], val |-> IntVal(6)]>>, <<>>)>>
      [] OTHER ->
           IF g % 2 = 0 THEN <<Node(3, <<>>, <<RegionNode(3, 1)>>)>>
           ELSE <<Node(3, <<>>, <<RegionNode(3, 1), RegionNode(3, 3)>>)>>

Files == { FileOf(r) : r \in Requests }

NoResult == Raise("", NoMessage)

Idle ==
    [pc |-> "idle", req |-> NoRequest, rv |-> NoResult, ran |-> FALSE,
     at |-> 0, genAt |-> 0, prior |-> <<>>, from |-> 0]

Init ==
    /\ store = [f \in Files |-> Content(f, 0)]
    /\ gen = [f \in Files |-> 0]
    /\ now = 0
    /\ cache = [k \in CacheKeys |-> <<>>]
    /\ th = [t \in Threads |-> Idle]
    /\ lastStore = [r \in Requests |-> <<>>]
    /\ started = 0
    /\ call = NoCall

RECURSIVE SumOver(_, _)
SumOver(f, S) ==
    IF S = {} THEN 0
    ELSE LET x == CHOOSE y \in S : TRUE IN f[x] + SumOver(f, S \ {x})

\* the calls started, the clock advances and the file replacements so far
Events == started + (now \div TICK) + SumOver(gen, Files)

\* a request arrives and the wrapper looks its key up: a hit is returned
\* as it is, a miss goes on to call the function
Lookup(t) ==
    \E r \in Requests :
        LET hit == cache_get(cache, cache_key(r.op, r.args), now) IN
        /\ th[t].pc = "idle"
        /\ Events < MaxEvents
        /\ started' = started + 1
        /\ th' = [th EXCEPT ![t] =
                    [Idle EXCEPT !.pc = IF hit = <<>> THEN "compute" ELSE "done",
                                 !.req = r,
                                 !.rv = IF hit = <<>> THEN NoResult ELSE hit[1].value,
                                 !.from = IF hit = <<>> THEN 0 ELSE hit[1].gen,
                                 !.at = now,
                                 !.genAt = gen[FileOf(r)],
                                 !.prior = lastStore[r]]]
        /\ UNCHANGED <<store, gen, now, cache, lastStore, call>>

\* the wrapped function runs on the files as they are now
Compute(t) ==
    /\ th[t].pc = "compute"
    /\ th' = [th EXCEPT ![t].pc = "set",
                        ![t].rv = Apply(th[t].req, store),
                        ![t].ran = TRUE,
                        ![t].from = gen[FileOf(th[t].req)]]
    /\ UNCHANGED <<store, gen, now, cache, lastStore, started, call>>

\* the wrapper stores what the function returned and returns it
Set(t) ==
    /\ th[t].pc = "set"
    /\ cache' = cache_set(cache, cache_key(th[t].req.op, th[t].req.args),
                          th[t].rv, now, th[t].from)
    /\ lastStore' = [lastStore EXCEPT ![th[t].req] =
                        <<[value |-> th[t].rv, at |-> now, gen |-> th[t].from]>>]
    /\ th' = [th EXCEPT ![t].pc = "done"]
    /\ UNCHANGED <<store, gen, now, started, call>>

\* the response has been sent
Finish(t) ==
    /\ th[t].pc = "done"
    /\ th' = [th EXCEPT ![t] = Idle]
    /\ UNCHANGED <<store, gen, now, cache, lastStore, started, call>>

\* the ingestion job replaces one file
Replace ==
    \E f \in Files :
        /\ Events < MaxEvents
        /\ gen' = [gen EXCEPT ![f] = @ + 1]
        /\ store' = [store EXCEPT ![f] = Content(f, gen[f] + 1)]
        /\ UNCHANGED <<now, cache, th, lastStore, started, call>>

\* time passes
Tick ==
    /\ Events < MaxEvents
    /\ now' = now + TICK
    /\ UNCHANGED <<store, gen, cache, th, lastStore, started, call>>

Next ==
    \/ \E t \in Threads : Lookup(t)
    \/ \E t \in Threads : Compute(t)
    \/ \E t \in Threads : Set(t)
    \/ \E t \in Threads : Finish(t)
    \/ Replace
    \/ Tick

Spec == Init /\ [][Next]_vars

---------------------------------------------------------------------------
(* Properties of the cache *)

Done(t) == th[t].pc = "done"

\* the store that holds the file a request reads as generation g of it
SnapshotAt(r, g) == FileOf(r) :> Content(FileOf(r), g)

\* when thread t looked its key up, a response stored for the same request
\* was less than 15 minutes old
Fresh(t) ==
    /\ th[t].prior # <<>>
    /\ th[t].at < th[t].prior[1].at + 15 * 60

C5_NeverFromReplacedSnapshot ==
    \A t \in Threads : Done(t) => th[t].from >= th[t].genAt

\* C5 as the code has it: a stored response is served until its 15 minutes
\* are over whether or not the snapshot has been replaced meanwhile; only a
\* call that runs the function answers from the snapshot current when it
\* runs.
C5_ServedUntilExpiry ==
    \A t \in Threads :
        Done(t) =>
            /\ ~th[t].ran =>
                 /\ th[t].prior # <<>>
                 /\ th[t].at < th[t].prior[1].at + CACHE_DEFAULT_TIMEOUT
                 /\ th[t].rv = th[t].prior[1].value
                 /\ th[t].from = th[t].prior[1].gen
            /\ th[t].ran =>
                 /\ th[t].from >= th[t].genAt
                 /\ th[t].from <= gen[FileOf(th[t].req)]
            /\ th[t].rv = Apply(th[t].req, SnapshotAt(th[t].req, th[t].from))

\* a call answered with a response of a snapshot replaced before the call
C5_Witness ==
    \E t \in Threads :
        /\ Done(t)
        /\ ~th[t].ran
        /\ th[t].from < th[t].genAt
        /\ th[t].rv # Apply(th[t].req, store)

\* C9: an error response is stored like any other: a query repeated within
\* the window after an error response is answered with that stored error
\* response, and the function is not run again.
C9_ErrorsCached ==
    \A t \in Threads :
        (Done(t) /\ Fresh(t) /\ th[t].prior[1].value.status # 200) =>
            /\ ~th[t].ran
            /\ th[t].rv = th[t].prior[1].value
            /\ th[t].rv.shape = "error"

C9_Witness ==
    \E t \in Threads :
        /\ Done(t)
        /\ ~th[t].ran
        /\ th[t].prior # <<>>
        /\ th[t].rv = th[t].prior[1].value
        /\ th[t].rv.status = 404
        /\ th[t].rv.error = "CountryNotFound"

\* C10: under every interleaving the cache holds one whole entry per key,
\* the one the last writer stored, and every stored or served response is
\* a response the function returned for that operation and those
\* arguments on some snapshot.
C10_LastWriterWholeEntry ==
    /\ DOMAIN cache = CacheKeys
    /\ \A r \in Requests :
          LET e == cache[cache_key(r.op, r.args)] IN
          /\ Len(e) <= 1
          /\ lastStore[r] = <<>> => e = <<>>
          /\ lastStore[r] # <<>> =>
               e = <<[value |-> lastStore[r][1].value,
                      expires |-> lastStore[r][1].at + CACHE_DEFAULT_TIMEOUT,
                      gen |-> lastStore[r][1].gen]>>
          /\ e # <<>> =>
               /\ e[1].value = Apply(r, SnapshotAt(r, e[1].gen))
               /\ e[1].value.status \in {200, 404, 500}
    /\ \A t \in Threads :
          Done(t) =>
              /\ th[t].rv \in { Apply(th[t].req, SnapshotAt(th[t].req, g)) :
                                  g \in 0..gen[FileOf(th[t].req)] }
              /\ th[t].rv.status \in {200, 404, 500}

\* two calls of one key that both ran the function, on different
\* snapshots, and the entry left by the one that stored last
C10_Witness ==
    \E t, u \in Threads :
        /\ t # u
        /\ Done(t) /\ Done(u)
        /\ th[t].req = th[u].req
        /\ th[t].ran /\ th[u].ran
        /\ th[t].rv # th[u].rv
        /\ th[t].from < th[u].from
        /\ cache[cache_key(th[t].req.op, th[t].req.args)][1].value = th[t].rv

=============================================================================
